---- MODULE Spec2Model ----
(***************************************************************************)
(* Ring buffer of src/src/utils/ring_buffer/ring_buffer.c.                 *)
(*                                                                         *)
(* The struct ring_buf_t is the variables capacity, tail, head, is_full;   *)
(* its field `buffer` points at the caller's storage, the variable         *)
(* container.  allocated tells whether the caller's handle is non-NULL.    *)
(* The operations of the C file are operators over a record rb with the    *)
(* fields of the struct (rb.buffer is the storage the pointer refers to);  *)
(* the actions apply them to the variables.                                *)
(***************************************************************************)
EXTENDS Integers, Sequences, FiniteSets, TLC

\* ---- bounds ----
MaxCap == 3            \* largest storage length explored
MaxByte == 1           \* bytes are 0..MaxByte (uint8_t cut down)

Byte == 0..MaxByte

VARIABLES
    container,   \* the caller's storage: [0..len-1 -> Byte]
    allocated,   \* TRUE iff the caller's handle is not NULL
    capacity,    \* rb->capacity
    tail,        \* rb->tail
    head,        \* rb->head
    is_full,     \* rb->is_full
    data,        \* the caller's uint8_t data, target of ring_buffer_read_byte
    ret,         \* the value returned by the last ring_buffer_read_byte
    asserted,    \* TRUE once an assert() of the C file has failed (abort)
    op,          \* history: name of the last operation performed
    arg,         \* history: argument of the last operation (byte or size)
    prev,        \* history: the state the last operation started from
    rt,          \* history: monitor of "N writes then N reads from empty"
    net,         \* history: writes minus successful reads since init/reset
    overflowed,  \* history: a write met net = capacity since init/reset
    init_size,   \* history: the size given to the ring_buffer_init of the instance
    null_arg,    \* history: the last init or deinit was given a NULL pointer
    malloc_ok,   \* history: malloc of the last ring_buffer_init returned a struct
    fifo,        \* history: the abstract bounded FIFO the buffer implements
    last_change, \* history: the last operation that changed the state
    pc,          \* position of a ring_buffer_read_byte in progress
    reg_tail,    \* the value of rb->tail the reader holds in a register
    reg_head,    \* the value of rb->head the reader loaded for its check
    reg_full,    \* the value of rb->is_full the reader loaded for its check
    steps,       \* the memory accesses of its current phase the reader has made
    expected     \* history (interrupt model): the candidate serial orders

vars == <<container, allocated, capacity, tail, head, is_full, data, ret,
          asserted, op, arg, prev, rt, net, overflowed, init_size, null_arg,
          malloc_ok, fifo, last_change, pc, reg_tail, reg_head, reg_full, steps,
          expected>>

\* ---- the struct as a value ----
Self == [buffer |-> container, capacity |-> capacity, tail |-> tail,
         head |-> head, is_full |-> is_full]

\* the fields of a released struct (free'd memory has no observable fields)
Freed == [capacity |-> 0, tail |-> 0, head |-> 0, is_full |-> FALSE]

\* ---- private functions ----
advance_headtail_value_stuck(value, cap) == IF value + 1 < cap THEN value + 1 ELSE value

advance_headtail_value_late_wrap(value, cap) == IF value + 1 > cap THEN 0 ELSE value + 1

advance_headtail_value(value, cap) == (value + 1) % cap

\* ---- queries ----
ring_buffer_is_full(rb) == rb.is_full

ring_buffer_is_empty(rb) == (~ring_buffer_is_full(rb)) /\ (rb.head = rb.tail)

ring_buffer_size_nowrap(rb) ==
    IF ~ring_buffer_is_full(rb)
    THEN IF rb.head >= rb.tail THEN rb.head - rb.tail
         ELSE rb.tail - rb.head
    ELSE rb.capacity

ring_buffer_size_noflag(rb) ==
    IF rb.head >= rb.tail THEN rb.head - rb.tail
    ELSE rb.capacity + rb.head - rb.tail

ring_buffer_size_always_wrap(rb) ==
    IF ~ring_buffer_is_full(rb)
    THEN rb.capacity + rb.head - rb.tail
    ELSE rb.capacity

ring_buffer_size(rb) ==
    IF ~ring_buffer_is_full(rb)
    THEN IF rb.head >= rb.tail THEN rb.head - rb.tail
         ELSE rb.capacity + rb.head - rb.tail
    ELSE rb.capacity

ring_buffer_capacity_as_size(rb) == ring_buffer_size(rb)

ring_buffer_capacity(rb) == rb.capacity

\* ---- state-changing functions ----
advance_head_pointer_keep_tail(rb) ==
    LET r2 == [rb EXCEPT !.head = advance_headtail_value(rb.head, rb.capacity)]
    IN  [r2 EXCEPT !.is_full = (r2.head = r2.tail)]

advance_head_pointer_always_evict(rb) ==
    LET r1 == [rb EXCEPT !.tail = advance_headtail_value(rb.tail, rb.capacity)]
        r2 == [r1 EXCEPT !.head = advance_headtail_value(r1.head, r1.capacity)]
    IN  [r2 EXCEPT !.is_full = (r2.head = r2.tail)]

advance_head_pointer_noflag(rb) ==
    LET r1 == IF ring_buffer_is_full(rb)
              THEN [rb EXCEPT !.tail = advance_headtail_value(rb.tail, rb.capacity)]
              ELSE rb
    IN  [r1 EXCEPT !.head = advance_headtail_value(r1.head, r1.capacity)]

advance_head_pointer(rb) ==
    LET r1 == IF ring_buffer_is_full(rb)
              THEN [rb EXCEPT !.tail = advance_headtail_value(rb.tail, rb.capacity)]
              ELSE rb
        r2 == [r1 EXCEPT !.head = advance_headtail_value(r1.head, r1.capacity)]
    IN  [r2 EXCEPT !.is_full = (r2.head = r2.tail)]

ring_buffer_reset_keep_flag(rb) == [rb EXCEPT !.head = 0, !.tail = 0]

ring_buffer_reset_clear(rb) ==
    [rb EXCEPT !.head = 0, !.tail = 0, !.is_full = FALSE,
               !.buffer = [i \in DOMAIN rb.buffer |-> 0]]

ring_buffer_reset(rb) == [rb EXCEPT !.head = 0, !.tail = 0, !.is_full = FALSE]

ring_buffer_write_byte_after(rb, d) ==
    LET r == advance_head_pointer(rb)
    IN  [r EXCEPT !.buffer[r.head] = d]

ring_buffer_write_byte_nostore(rb, d) == advance_head_pointer(rb)

ring_buffer_write_byte(rb, d) ==
    advance_head_pointer([rb EXCEPT !.buffer[rb.head] = d])

ring_buffer_read_byte_clobber(rb, d) ==
    IF ~ring_buffer_is_empty(rb)
    THEN [rb |-> [rb EXCEPT !.tail = advance_headtail_value(rb.tail, rb.capacity),
                            !.is_full = FALSE],
          data |-> rb.buffer[rb.tail], r |-> 0]
    ELSE [rb |-> rb, data |-> rb.buffer[rb.tail], r |-> -1]

ring_buffer_read_byte_keep_flag(rb, d) ==
    IF ~ring_buffer_is_empty(rb)
    THEN [rb |-> [rb EXCEPT !.tail = advance_headtail_value(rb.tail, rb.capacity)],
          data |-> rb.buffer[rb.tail], r |-> 0]
    ELSE [rb |-> rb, data |-> d, r |-> -1]

ring_buffer_read_byte_peek(rb, d) ==
    IF ~ring_buffer_is_empty(rb)
    THEN [rb |-> [rb EXCEPT !.is_full = FALSE],
          data |-> rb.buffer[rb.tail], r |-> 0]
    ELSE [rb |-> rb, data |-> d, r |-> -1]

\* the result is the struct, the caller's *data and the return value
ring_buffer_read_byte(rb, d) ==
    IF ~ring_buffer_is_empty(rb)
    THEN [rb |-> [rb EXCEPT !.tail = advance_headtail_value(rb.tail, rb.capacity),
                            !.is_full = FALSE],
          data |-> rb.buffer[rb.tail], r |-> 0]
    ELSE [rb |-> rb, data |-> d, r |-> -1]

\* buffer is the pointer argument: [null |-> BOOLEAN, mem |-> storage];
\* got_rb tells whether malloc returns a struct.  ok is FALSE when an
\* assertion fails: assert(buffer && size), or assert(rb) after the malloc
ring_buffer_init_noreset(buffer, size, got_rb) ==
    [ok |-> (~buffer.null) /\ size # 0 /\ got_rb,
     rb |-> [buffer |-> buffer.mem, capacity |-> size, tail |-> 0, head |-> 0,
             is_full |-> TRUE]]

ring_buffer_init_pow2(buffer, size, got_rb) ==
    [ok |-> (~buffer.null) /\ (\E k \in 0..size : 2 ^ k = size) /\ got_rb,
     rb |-> ring_buffer_reset([buffer |-> buffer.mem, capacity |-> size,
                               tail |-> 0, head |-> 0, is_full |-> FALSE])]

ring_buffer_init(buffer, size, got_rb) ==
    [ok |-> (~buffer.null) /\ size # 0 /\ got_rb,
     rb |-> ring_buffer_reset([buffer |-> buffer.mem, capacity |-> size,
                               tail |-> 0, head |-> 0, is_full |-> FALSE])]

\* rb is the argument, a pointer to the caller's handle:
\* [null |-> BOOLEAN, handle |-> TRUE iff the handle is not NULL].
\* assert(rb != NULL) fails on a NULL pointer; free(NULL) does nothing, so a
\* pointer to a NULL handle passes and leaves the handle NULL
ring_buffer_deinit_strict(rb) == [allocated |-> FALSE, ok |-> (~rb.null) /\ rb.handle]

ring_buffer_deinit(rb) == [allocated |-> FALSE, ok |-> ~rb.null]


\* ---- history variables ----
Snapshot == [container |-> container, allocated |-> allocated,
             capacity |-> capacity, tail |-> tail, head |-> head,
             is_full |-> is_full, data |-> data]

\* the struct the last operation started from
PrevRb == [buffer |-> prev.container, capacity |-> prev.capacity,
           tail |-> prev.tail, head |-> prev.head, is_full |-> prev.is_full]

\* Monitor of the round trip "from an empty buffer, N writes then N reads":
\* w is the bytes written and r the <<return value, byte>> of each read so
\* far; phase is "w" while only writes were made, "r" once reads began, and
\* "off" when the calls left the pattern (a write on a full buffer, or a write
\* after the reads began).  It starts again whenever an operation starts from
\* an empty buffer (head = tail, is_full false).
RTStart == [phase |-> "w", w |-> <<>>, r |-> <<>>]

RTOff == [phase |-> "off", w |-> <<>>, r |-> <<>>]

RTBase(rb) == IF ring_buffer_is_empty(rb) THEN RTStart ELSE rt

RTWrite(rb, d) ==
    LET b == RTBase(rb)
    IN  IF b.phase = "w" /\ Len(b.w) < rb.capacity
        THEN [b EXCEPT !.w = Append(b.w, d)]
        ELSE RTOff

RTRead(rb, r, d) ==
    LET b == RTBase(rb)
    IN  IF b.phase \in {"w", "r"} /\ Len(b.r) < Len(b.w)
        THEN [b EXCEPT !.phase = "r", !.r = Append(b.r, <<r, d>>)]
        ELSE b

\* The abstract bounded FIFO: a write appends, after dropping the oldest item
\* when cap items are held; a read pops the oldest item, if there is one.
FifoWrite(q, cap, d) == IF Len(q) >= cap THEN Append(Tail(q), d) ELSE Append(q, d)

FifoRead(q) == IF q # <<>> THEN Tail(q) ELSE q


\* all that outlives a struct that is gone: the storage and the caller's data
StorageSnapshot == [container |-> container, allocated |-> allocated,
                    capacity |-> 0, tail |-> 0, head |-> 0,
                    is_full |-> FALSE, data |-> data]

\* Candidate serial orders of the interrupt model.  A candidate is the
\* content q of the abstract FIFO after the operations ordered so far; while
\* a read is in progress, done tells whether the candidate has ordered it
\* already, and then r and d are the return value and the byte it gives it.
Lin(s) ==
    IF s.q = <<>>
    THEN [q |-> <<>>, done |-> TRUE, r |-> -1, d |-> 0]
    ELSE [q |-> Tail(s.q), done |-> TRUE, r |-> 0, d |-> Head(s.q)]

\* the read in progress may take effect now
Close(S) == S \cup {Lin(s) : s \in {x \in S : ~x.done}}

LinWrite(S, cap, d) == {[s EXCEPT !.q = FifoWrite(s.q, cap, d)] : s \in S}

\* the read has returned r, with byte d when r = 0
Complete(S, r, d) ==
    {[q |-> s.q, done |-> FALSE, r |-> 0, d |-> 0] :
        s \in {x \in S : x.done /\ x.r = r /\ (r = 0 => x.d = d)}}

ISRVars == <<pc, reg_tail, reg_head, reg_full, steps, expected>>

HistVars == <<op, arg, prev, rt, net, overflowed, init_size, null_arg,
              malloc_ok, fifo, last_change>>

\* ---- initial state: ring_buffer_init(container, size) has returned ----
Init ==
    \E len \in 1..MaxCap :
      \E mem \in [0..(len - 1) -> Byte] :
        \E size \in 1..len :
          LET res == ring_buffer_init([null |-> FALSE, mem |-> mem], size, TRUE)
          IN  /\ container = res.rb.buffer
              /\ allocated = TRUE
              /\ capacity = res.rb.capacity
              /\ tail = res.rb.tail
              /\ head = res.rb.head
              /\ is_full = res.rb.is_full
              /\ data = 0
              /\ ret = 0
              /\ asserted = ~res.ok
              /\ op = "init"
              /\ arg = size
              /\ prev = [container |-> mem, allocated |-> FALSE, capacity |-> 0,
                         tail |-> 0, head |-> 0, is_full |-> FALSE, data |-> 0]
              /\ rt = RTStart
              /\ net = 0
              /\ overflowed = FALSE
              /\ init_size = size
              /\ null_arg = FALSE
              /\ malloc_ok = TRUE
              /\ fifo = <<>>
              /\ last_change = "init"
              /\ pc = "idle"
              /\ reg_tail = 0
              /\ reg_head = 0
              /\ reg_full = FALSE
              /\ steps = {}
              /\ expected = {[q |-> <<>>, done |-> FALSE, r |-> 0, d |-> 0]}

\* ---- actions: one call of a function of the API, run to completion ----
\* the program runs (no assertion has failed) and no call is in progress
Running == (~asserted) /\ pc = "idle"

\* assert(rb) / assert(rb && rb->buffer): the handle is not NULL (the buffer
\* of an instance is never NULL, ring_buffer_init asserts it)
Usable == allocated

\* A failed assertion: abort() ends the process, and with it the handle and
\* the struct; only the call that failed is recorded.
Abort(name, a, null, mok) ==
    /\ asserted' = TRUE
    /\ allocated' = FALSE
    /\ capacity' = Freed.capacity
    /\ tail' = Freed.tail
    /\ head' = Freed.head
    /\ is_full' = Freed.is_full
    /\ op' = name
    /\ arg' = a
    /\ prev' = StorageSnapshot
    /\ rt' = RTOff
    /\ net' = 0
    /\ overflowed' = FALSE
    /\ init_size' = 0
    /\ null_arg' = null
    /\ malloc_ok' = mok
    /\ fifo' = <<>>
    /\ last_change' = "abort"
    /\ UNCHANGED <<container, data, ret>>
    /\ UNCHANGED ISRVars

Write(d) ==
    /\ Running
    /\ IF Usable
       THEN /\ LET n == ring_buffer_write_byte(Self, d)
               IN  /\ container' = n.buffer
                   /\ capacity' = n.capacity
                   /\ tail' = n.tail
                   /\ head' = n.head
                   /\ is_full' = n.is_full
            /\ op' = "write"
            /\ arg' = d
            /\ prev' = Snapshot
            /\ rt' = RTWrite(Self, d)
            /\ net' = IF overflowed \/ net >= capacity THEN net ELSE net + 1
            /\ overflowed' = (overflowed \/ net >= capacity)
            /\ fifo' = FifoWrite(fifo, capacity, d)
            /\ last_change' = "write"
            /\ UNCHANGED <<allocated, data, ret, asserted, init_size, null_arg,
                           malloc_ok>>
            /\ UNCHANGED ISRVars
       ELSE Abort("write", d, null_arg, malloc_ok)

\* data_null: the caller passed data = NULL; assert(rb && data && rb->buffer)
Read(data_null) ==
    /\ Running
    /\ IF Usable /\ ~data_null
       THEN /\ LET n == ring_buffer_read_byte(Self, data)
               IN  /\ container' = n.rb.buffer
                   /\ capacity' = n.rb.capacity
                   /\ tail' = n.rb.tail
                   /\ head' = n.rb.head
                   /\ is_full' = n.rb.is_full
                   /\ data' = n.data
                   /\ ret' = n.r
                   /\ rt' = RTRead(Self, n.r, n.data)
                   /\ net' = IF (~overflowed) /\ n.r = 0 THEN net - 1 ELSE net
            /\ op' = "read"
            /\ arg' = 0
            /\ prev' = Snapshot
            /\ fifo' = FifoRead(fifo)
            /\ last_change' = IF fifo # <<>> THEN "read" ELSE last_change
            /\ UNCHANGED <<allocated, asserted, overflowed, init_size, null_arg,
                           malloc_ok>>
            /\ UNCHANGED ISRVars
       ELSE Abort("read", 0, null_arg, malloc_ok)

Reset ==
    /\ Running
    /\ IF Usable
       THEN /\ LET n == ring_buffer_reset(Self)
               IN  /\ container' = n.buffer
                   /\ capacity' = n.capacity
                   /\ tail' = n.tail
                   /\ head' = n.head
                   /\ is_full' = n.is_full
            /\ op' = "reset"
            /\ arg' = 0
            /\ prev' = Snapshot
            /\ rt' = RTStart
            /\ net' = 0
            /\ overflowed' = FALSE
            /\ fifo' = <<>>
            /\ last_change' = "reset"
            /\ UNCHANGED <<allocated, data, ret, asserted, init_size, null_arg,
                           malloc_ok>>
            /\ UNCHANGED ISRVars
       ELSE Abort("reset", 0, null_arg, malloc_ok)

\* ring_buffer_size, ring_buffer_capacity, ring_buffer_is_empty and
\* ring_buffer_is_full: assert(rb), then a value and no change of state
Query ==
    /\ Running
    /\ IF Usable
       THEN UNCHANGED vars
       ELSE Abort("query", 0, null_arg, malloc_ok)

\* ring_buffer_deinit(&handle), on a live or on an already released handle,
\* or ring_buffer_deinit(NULL)
Deinit(null) ==
    /\ Running
    /\ LET n == ring_buffer_deinit([null |-> null, handle |-> allocated])
       IN  IF n.ok
           THEN /\ allocated' = n.allocated
                /\ asserted' = FALSE
                /\ capacity' = Freed.capacity
                /\ tail' = Freed.tail
                /\ head' = Freed.head
                /\ is_full' = Freed.is_full
                /\ op' = "deinit"
                /\ arg' = 0
                /\ prev' = Snapshot
                /\ rt' = RTOff
                /\ net' = 0
                /\ overflowed' = FALSE
                /\ init_size' = 0
                /\ null_arg' = null
                /\ fifo' = <<>>
                /\ last_change' = "deinit"
                /\ UNCHANGED <<container, data, ret, malloc_ok>>
                /\ UNCHANGED ISRVars
           ELSE Abort("deinit", 0, null, malloc_ok)

\* a further handle = ring_buffer_init(container, size), whether the handle
\* is NULL or still live (the struct it referred to is then lost)
Reinit(null, size, mok) ==
    /\ Running
    /\ LET res == ring_buffer_init([null |-> null, mem |-> container], size, mok)
       IN  IF res.ok
           THEN /\ asserted' = FALSE
                /\ allocated' = TRUE
                /\ capacity' = res.rb.capacity
                /\ tail' = res.rb.tail
                /\ head' = res.rb.head
                /\ is_full' = res.rb.is_full
                /\ container' = res.rb.buffer
                /\ op' = "init"
                /\ arg' = size
                /\ prev' = StorageSnapshot
                /\ rt' = RTStart
                /\ net' = 0
                /\ overflowed' = FALSE
                /\ init_size' = size
                /\ null_arg' = null
                /\ malloc_ok' = mok
                /\ fifo' = <<>>
                /\ last_change' = "init"
                /\ UNCHANGED <<data, ret>>
                /\ UNCHANGED ISRVars
           ELSE Abort("init", size, null, mok)

Next ==
    \/ \E d \in Byte : Write(d)
    \/ \E data_null \in BOOLEAN : Read(data_null)
    \/ Reset
    \/ Query
    \/ \E null \in BOOLEAN : Deinit(null)
    \/ \E null \in BOOLEAN, mok \in BOOLEAN :
          \E size \in 0..Cardinality(DOMAIN container) : Reinit(null, size, mok)

Spec == Init /\ [][Next]_vars


\* ---- ring_buffer_write_byte as an interrupt of ring_buffer_read_byte ----
\* The reader runs ring_buffer_read_byte one memory access at a time; the
\* interrupt runs a whole ring_buffer_write_byte between any two of them.
\* No field of the struct is volatile or atomic, so the build is free in the
\* order of the three loads of the emptiness check (rb->is_full, rb->head,
\* rb->tail; head and tail are not needed once is_full was read as true), in
\* reading rb->tail again for line 159 and for line 160 or using the value
\* it holds in a register, and in the order of the two stores (rb->tail,
\* rb->is_full).  Every load and every store is a step of its own.

\* the interrupt: every candidate serial order takes the write in
IsrWrite(d) ==
    /\ ~asserted
    /\ IF Usable
       THEN /\ LET n == ring_buffer_write_byte(Self, d)
               IN  /\ container' = n.buffer
                   /\ capacity' = n.capacity
                   /\ tail' = n.tail
                   /\ head' = n.head
                   /\ is_full' = n.is_full
            /\ expected' = IF pc = "idle"
                           THEN LinWrite(expected, capacity, d)
                           ELSE Close(LinWrite(expected, capacity, d))
            /\ UNCHANGED <<allocated, data, ret, asserted, pc, reg_tail,
                           reg_head, reg_full, steps>>
            /\ UNCHANGED HistVars
       ELSE Abort("write", d, null_arg, malloc_ok)

\* the reader is in ring_buffer_read_byte(rb, &data), its assertion passed,
\* and has not yet made the access named what
RdChecking(what) ==
    /\ Usable
    /\ ~asserted
    /\ pc \in {"idle", "check"}
    /\ what \notin steps
    /\ pc' = "check"
    /\ steps' = steps \cup {what}
    /\ expected' = IF pc = "idle" THEN Close(expected) ELSE expected
    /\ UNCHANGED <<container, allocated, capacity, tail, head, is_full, data,
                   ret, asserted>>
    /\ UNCHANGED HistVars

\* return rb->is_full, inlined in ring_buffer_is_empty
RdLoadIsFull ==
    /\ RdChecking("is_full")
    /\ reg_full' = is_full
    /\ UNCHANGED <<reg_head, reg_tail>>

\* rb->head of (rb->head == rb->tail)
RdLoadHead ==
    /\ RdChecking("head")
    /\ reg_head' = head
    /\ UNCHANGED <<reg_full, reg_tail>>

\* rb->tail of (rb->head == rb->tail)
RdLoadTail ==
    /\ RdChecking("tail")
    /\ reg_tail' = tail
    /\ UNCHANGED <<reg_full, reg_head>>

\* the call returns r: the candidates that foresaw this result remain
RdReturn(r) ==
    /\ ret' = r
    /\ pc' = "idle"
    /\ steps' = {}
    /\ reg_tail' = 0
    /\ reg_head' = 0
    /\ reg_full' = FALSE
    /\ expected' = Complete(expected, r, data)

\* if (!ring_buffer_is_empty(rb)), on the values loaded
RdCheck ==
    /\ pc = "check"
    /\ "is_full" \in steps
    /\ reg_full \/ {"head", "tail"} \subseteq steps
    /\ IF (~reg_full) /\ reg_head = reg_tail
       THEN RdReturn(-1)
       ELSE /\ pc' = "load"
            /\ steps' = steps \cap {"tail"}
            /\ reg_tail' = IF "tail" \in steps THEN reg_tail ELSE 0
            /\ reg_head' = 0
            /\ reg_full' = FALSE
            /\ UNCHANGED <<ret, expected>>
    /\ UNCHANGED <<container, allocated, capacity, tail, head, is_full, data,
                   asserted>>
    /\ UNCHANGED HistVars

\* rb->tail read again, for rb->buffer[rb->tail] or for the new value of
\* rb->tail: at most once for each, and never after the store to rb->tail
RdReloadTail ==
    /\ pc \in {"load", "store"}
    /\ "reload" \notin steps
    /\ "store_tail" \notin steps
    /\ reg_tail' = tail
    /\ steps' = steps \cup {"tail", "reload"}
    /\ UNCHANGED <<container, allocated, capacity, tail, head, is_full, data,
                   ret, asserted, pc, reg_head, reg_full, expected>>
    /\ UNCHANGED HistVars

\* *data = rb->buffer[rb->tail], with the value of rb->tail held
RdLoad ==
    /\ pc = "load"
    /\ "tail" \in steps
    /\ data' = container[reg_tail]
    /\ pc' = "store"
    /\ steps' = {}
    /\ UNCHANGED <<container, allocated, capacity, tail, head, is_full, ret,
                   asserted, reg_tail, reg_head, reg_full, expected>>
    /\ UNCHANGED HistVars

\* rb->tail = advance_headtail_value(rb->tail, rb->capacity), the store,
\* before or after the store to rb->is_full; r = 0 and return r after the
\* later one
RdStoreTail ==
    /\ pc = "store"
    /\ "store_tail" \notin steps
    /\ tail' = advance_headtail_value(reg_tail, capacity)
    /\ IF "store_full" \in steps
       THEN RdReturn(0)
       ELSE /\ steps' = steps \cup {"store_tail"}
            /\ UNCHANGED <<ret, pc, reg_tail, reg_head, reg_full, expected>>
    /\ UNCHANGED <<container, allocated, capacity, head, is_full, data,
                   asserted>>
    /\ UNCHANGED HistVars

\* rb->is_full = false
RdStoreFull ==
    /\ pc = "store"
    /\ "store_full" \notin steps
    /\ is_full' = FALSE
    /\ IF "store_tail" \in steps
       THEN RdReturn(0)
       ELSE /\ steps' = steps \cup {"store_full"}
            /\ UNCHANGED <<ret, pc, reg_tail, reg_head, reg_full, expected>>
    /\ UNCHANGED <<container, allocated, capacity, tail, head, data, asserted>>
    /\ UNCHANGED HistVars

NextISR ==
    \/ \E d \in Byte : IsrWrite(d)
    \/ RdLoadIsFull
    \/ RdLoadHead
    \/ RdLoadTail
    \/ RdCheck
    \/ RdReloadTail
    \/ RdLoad
    \/ RdStoreTail
    \/ RdStoreFull

SpecISR == Init /\ [][NextISR]_vars


\* ---- the unread bytes, oldest first: what successive reads deliver ----
\* the bytes of up to n calls of ring_buffer_read_byte, until one returns -1
RECURSIVE Delivered(_, _)
Delivered(rb, n) ==
    LET res == ring_buffer_read_byte(rb, 0)
    IN  IF n = 0 \/ res.r # 0
        THEN <<>>
        ELSE <<res.data>> \o Delivered(res.rb, n - 1)

\* a successful read clears is_full and moves tail one slot towards head, so
\* the read after at most capacity of them returns -1
Contents(rb) == Delivered(rb, rb.capacity)

\* ======================= claims =======================

\* C1: round trip. From any empty buffer (head = tail at any index, is_full
\* false), N <= capacity writes followed by reads: every read returns 0, the
\* i-th read delivers the i-th written byte, and after the N-th read the
\* buffer is empty (N = 0 included: nothing written, the buffer is empty).
C1_RoundTrip ==
    (allocated /\ rt.phase \in {"w", "r"}) =>
        /\ Len(rt.r) <= Len(rt.w)
        /\ \A i \in 1..Len(rt.r) : rt.r[i][1] = 0 /\ rt.r[i][2] = rt.w[i]
        /\ (Len(rt.r) = Len(rt.w) /\ (rt.phase = "r" \/ Len(rt.w) = 0))
              => ring_buffer_is_empty(Self)

\* a round trip of capacity bytes, not all equal, that began at an index
\* other than 0, so the writes wrapped around the end of the storage
C1_Witness ==
    /\ allocated
    /\ rt.phase = "r"
    /\ capacity >= 2
    /\ Len(rt.w) = capacity
    /\ Len(rt.r) = capacity
    /\ rt.w[1] # rt.w[2]
    /\ head # 0

\* C2: a write on a full buffer keeps size = capacity and is_full true,
\* discards exactly the oldest unread byte and appends the new one, and the
\* next read returns 0 with the byte that was second-oldest (the new byte when
\* capacity is 1).
C2_OverwriteOnFull ==
    (op = "write" /\ ~asserted /\ ring_buffer_size(PrevRb) = prev.capacity) =>
        /\ ring_buffer_size(Self) = capacity
        /\ ring_buffer_is_full(Self)
        /\ Contents(Self) = Append(Tail(Contents(PrevRb)), arg)
        /\ ring_buffer_read_byte(Self, data).r = 0
        /\ ring_buffer_read_byte(Self, data).data =
              (IF capacity = 1 THEN arg ELSE Contents(PrevRb)[2])

\* a write on a full buffer whose second-oldest byte differs from the oldest
\* and from the new one
C2_Witness ==
    /\ op = "write"
    /\ ~asserted
    /\ prev.is_full
    /\ capacity >= 2
    /\ Contents(PrevRb)[1] # Contents(PrevRb)[2]
    /\ arg # Contents(PrevRb)[2]

\* C3: with ring_buffer_write_byte interrupting a read in progress, once the
\* read has returned the outcome is that of a serial order of the whole
\* operations: some order gives every read so far the return value and byte
\* it got and leaves as unread bytes, in order, the size() bytes from tail
\* on; and is_full implies head = tail.
C3_InterruptedReadSerial ==
    (allocated /\ pc = "idle") =>
        /\ (is_full => head = tail)
        /\ \E s \in expected : s.q = Contents(Self)

\* C4: ring_buffer_read_byte on an empty buffer returns -1 and leaves head,
\* tail, is_full, capacity, the storage and the caller's data as they were.
C4_ReadOnEmpty ==
    (op = "read" /\ ~asserted /\ ring_buffer_is_empty(PrevRb)) =>
        /\ ret = -1
        /\ Snapshot = prev

\* a read on a buffer drained at an index other than 0, where the caller's
\* data differs from the byte in the slot at tail
C4_Witness ==
    /\ op = "read"
    /\ ~asserted
    /\ ring_buffer_is_empty(PrevRb)
    /\ prev.tail # 0
    /\ prev.data # prev.container[prev.tail]

\* C5: while no write was made on a full buffer since the last init or
\* reset, size() = writes - reads that returned 0.
C5_SizeAccounting ==
    (allocated /\ ~overflowed) => ring_buffer_size(Self) = net

\* head has wrapped below tail with bytes unread
C5_Witness ==
    /\ allocated
    /\ ~overflowed
    /\ head < tail
    /\ net >= 2

\* C6: is_empty iff size() = 0, and is_full iff size() = capacity.
C6_QueryConsistency ==
    allocated =>
        /\ ring_buffer_is_empty(Self) <=> (ring_buffer_size(Self) = 0)
        /\ ring_buffer_is_full(Self) <=> (ring_buffer_size(Self) = ring_buffer_capacity(Self))

\* a full buffer of capacity 1, where head = tail is all the indices can say
C6_Witness ==
    /\ allocated
    /\ capacity = 1
    /\ ring_buffer_is_full(Self)
    /\ ~ring_buffer_is_empty(Self)

\* C7: after ring_buffer_reset head = 0, tail = 0, is_full is false, size()
\* is 0 and the buffer is empty; a further reset gives the same state.
C7_ResetIdempotent ==
    (op = "reset" /\ ~asserted) =>
        /\ head = 0 /\ tail = 0 /\ is_full = FALSE
        /\ ring_buffer_size(Self) = 0
        /\ ring_buffer_is_empty(Self)
        /\ ~ring_buffer_is_full(Self)
        /\ ring_buffer_reset(Self) = Self

\* a reset of a full buffer whose indices had wrapped
C7_Witness ==
    /\ op = "reset"
    /\ ~asserted
    /\ prev.is_full
    /\ prev.head # 0

\* C8: ring_buffer_init(buffer, size) with size >= 1 gives capacity() = size,
\* size() = 0, is_empty, not is_full, head = tail = 0, whatever the storage
\* holds.
C8_InitialState ==
    (op = "init" /\ arg >= 1 /\ ~asserted) =>
        /\ allocated
        /\ ring_buffer_capacity(Self) = arg
        /\ ring_buffer_size(Self) = 0
        /\ ring_buffer_is_empty(Self)
        /\ ~ring_buffer_is_full(Self)
        /\ head = 0 /\ tail = 0

\* an init over storage that holds bytes of an earlier use
C8_Witness ==
    /\ op = "init"
    /\ allocated
    /\ arg >= 2
    /\ \E i \in DOMAIN container : container[i] # 0
    /\ prev.data # 0

\* C9: ring_buffer_deinit(&handle) sets the handle to NULL and leaves the
\* storage as it was; on an already released handle it fails no assertion and
\* leaves the handle NULL and the storage as it was.
C9_Deinit ==
    (op = "deinit" /\ ~null_arg) =>
        /\ ~allocated
        /\ ~asserted
        /\ container = prev.container

\* a second ring_buffer_deinit, on the NULL handle
C9_Witness ==
    /\ op = "deinit"
    /\ ~asserted
    /\ ~prev.allocated
    /\ \E i \in DOMAIN container : container[i] # 0

\* C10: ring_buffer_capacity returns the size given to ring_buffer_init in
\* every state reached by writes, reads and resets.
C10_CapacityConstant ==
    allocated => ring_buffer_capacity(Self) = init_size

\* a full, wrapped buffer whose capacity is less than the storage length,
\* after a failed read
C10_Witness ==
    /\ allocated
    /\ op = "write"
    /\ is_full
    /\ head # 0
    /\ ret = -1
    /\ init_size < Cardinality(DOMAIN container)


\* C11: ring_buffer_init fails an assertion whenever size is 0 or the buffer
\* pointer is NULL, and a failed assertion leaves no instance; with a buffer
\* and a size >= 1, power of two or not, it fails only when malloc gives no
\* struct, and otherwise gives an instance of that capacity.
C11_InvalidCapacity ==
    /\ asserted => ~allocated
    /\ (op = "init") =>
          /\ (arg = 0 \/ null_arg) => asserted
          /\ (arg >= 1 /\ ~null_arg) => (asserted <=> ~malloc_ok)
          /\ (~asserted) => (allocated /\ ring_buffer_capacity(Self) = arg)

\* ring_buffer_init(container, 0) has aborted
C11_Witness ==
    /\ op = "init"
    /\ arg = 0
    /\ ~null_arg
    /\ malloc_ok
    /\ asserted
    /\ ~allocated

\* C12: the size() bytes from tail on are the abstract FIFO (empty at init
\* and reset, append on write after dropping the oldest at capacity, pop on
\* read), and a read returns 0 with the FIFO's oldest item exactly when the
\* FIFO is not empty.
C12_FifoRefinement ==
    allocated =>
        /\ Contents(Self) = fifo
        /\ (fifo # <<>>) =>
              /\ ring_buffer_read_byte(Self, data).r = 0
              /\ ring_buffer_read_byte(Self, data).data = Head(fifo)
        /\ (fifo = <<>>) => ring_buffer_read_byte(Self, data).r = -1
        /\ (op = "read" /\ ret = 0) => Contents(PrevRb) = <<data>> \o fifo

\* a full FIFO after an eviction, stored across the end of the storage,
\* while the slot after it last held a different byte before the reset
C12_Witness ==
    /\ allocated
    /\ op = "write"
    /\ prev.is_full
    /\ capacity >= 2
    /\ Len(fifo) = capacity
    /\ fifo[1] # fifo[2]
    /\ tail # 0

\* C13 as stated: a write never changes tail and a read never changes head.
C13_DisjointOwnership ==
    /\ (op = "write" /\ ~asserted) => (tail = prev.tail)
    /\ (op = "read" /\ ~asserted) => (head = prev.head)

\* C13 amended: a write leaves tail as it was unless the buffer was full,
\* and then advances it by one slot; a read never changes head.
C13_OwnershipButEviction ==
    /\ (op = "write" /\ ~asserted /\ ~prev.is_full) => (tail = prev.tail)
    /\ (op = "write" /\ ~asserted /\ prev.is_full)
          => (tail = (prev.tail + 1) % prev.capacity)
    /\ (op = "read" /\ ~asserted) => (head = prev.head)

\* a write on a full buffer has moved tail
C13_Witness ==
    /\ op = "write"
    /\ ~asserted
    /\ prev.is_full
    /\ tail # prev.tail

\* C14: is_full is true iff head = tail and the last operation that changed
\* the state was a write; head = tail with is_full false is the empty buffer.
C14_FullFlag ==
    allocated =>
        /\ is_full <=> (head = tail /\ last_change = "write")
        /\ (head = tail /\ ~is_full) =>
              (ring_buffer_is_empty(Self) /\ ring_buffer_size(Self) = 0 /\ fifo = <<>>)

\* a drained buffer, head = tail away from 0, that the last write did not
\* fill, seen after a failed read
C14_Witness ==
    /\ allocated
    /\ head = tail
    /\ head # 0
    /\ ~is_full
    /\ last_change = "read"
    /\ op = "read"
    /\ ret = -1

\* C15: head and tail stay within 0..capacity-1, inside the storage.
C15_IndexBounds ==
    allocated =>
        /\ head \in 0..(capacity - 1)
        /\ tail \in 0..(capacity - 1)
        /\ head \in DOMAIN container
        /\ tail \in DOMAIN container

\* a write has wrapped head from the last slot to 0
C15_Witness ==
    /\ allocated
    /\ op = "write"
    /\ capacity >= 2
    /\ prev.head = capacity - 1
    /\ head = 0

\* Empty / Partial / Full, by size()
St(rb) ==
    IF ring_buffer_size(rb) = 0 THEN "Empty"
    ELSE IF ring_buffer_size(rb) = rb.capacity THEN "Full"
    ELSE "Partial"

\* C16: init and reset give Empty; a write from Empty or Partial gives
\* Partial or Full, from Full gives Full; a read from Partial or Full gives
\* Partial or Empty, from Empty gives Empty; on a live instance a write and a
\* read can always be called and return (no assertion fails).
C16_StateMachine ==
    allocated =>
        /\ (op \in {"init", "reset"}) => St(Self) = "Empty"
        /\ (op = "write" /\ St(PrevRb) \in {"Empty", "Partial"})
              => St(Self) \in {"Partial", "Full"}
        /\ (op = "write" /\ St(PrevRb) = "Full") => St(Self) = "Full"
        /\ (op = "read" /\ St(PrevRb) \in {"Partial", "Full"})
              => St(Self) \in {"Partial", "Empty"}
        /\ (op = "read" /\ St(PrevRb) = "Empty") => St(Self) = "Empty"
        /\ ENABLED (Read(FALSE) /\ ~asserted')
        /\ ENABLED (\E d \in Byte : Write(d) /\ ~asserted')

\* a read has taken a full buffer to Partial
C16_Witness ==
    /\ allocated
    /\ op = "read"
    /\ St(PrevRb) = "Full"
    /\ St(Self) = "Partial"

\* C17: a read of a non-empty buffer returns 0, delivers the byte at the old
\* tail, advances tail by one slot modulo capacity, clears is_full, lowers
\* size() by 1 and leaves head, capacity and the storage as they were.
C17_ReadStep ==
    (op = "read" /\ ~asserted /\ ~ring_buffer_is_empty(PrevRb)) =>
        /\ ret = 0
        /\ data = prev.container[prev.tail]
        /\ tail = (prev.tail + 1) % prev.capacity
        /\ is_full = FALSE
        /\ ring_buffer_size(Self) = ring_buffer_size(PrevRb) - 1
        /\ head = prev.head
        /\ capacity = prev.capacity
        /\ container = prev.container
        /\ prev.is_full =>
              (~ring_buffer_is_full(Self) /\ ring_buffer_size(Self) = capacity - 1)

\* a read of a full buffer whose tail was at the last slot
C17_Witness ==
    /\ op = "read"
    /\ ~asserted
    /\ prev.is_full
    /\ capacity >= 2
    /\ prev.tail = capacity - 1
    /\ data # prev.data

\* C18: a write stores the byte in the slot at the old head and in no other,
\* advances head by one slot modulo capacity and keeps capacity; when the
\* buffer was not full, tail is kept and size() grows by 1.
C18_WriteStep ==
    (op = "write" /\ ~asserted) =>
        /\ container = [prev.container EXCEPT ![prev.head] = arg]
        /\ head = (prev.head + 1) % prev.capacity
        /\ capacity = prev.capacity
        /\ (~prev.is_full) =>
              /\ tail = prev.tail
              /\ ring_buffer_size(Self) = ring_buffer_size(PrevRb) + 1

\* a write to a buffer that was not full, into the last slot, of a byte
\* the slot did not hold
C18_Witness ==
    /\ op = "write"
    /\ ~asserted
    /\ ~prev.is_full
    /\ capacity >= 2
    /\ prev.head = capacity - 1
    /\ prev.container[prev.head] # arg

\* C19: ring_buffer_reset leaves the storage, the capacity, the handle and
\* the caller's data as they were.
C19_ResetKeepsData ==
    (op = "reset" /\ ~asserted) =>
        /\ container = prev.container
        /\ capacity = prev.capacity
        /\ allocated = prev.allocated
        /\ data = prev.data

\* a reset of a full buffer whose storage holds non-zero bytes
C19_Witness ==
    /\ op = "reset"
    /\ ~asserted
    /\ prev.is_full
    /\ \E i \in DOMAIN container : container[i] # 0

\* C20: 0 <= size() <= capacity in every state.
C20_SizeBound ==
    allocated =>
        /\ 0 <= ring_buffer_size(Self)
        /\ ring_buffer_size(Self) <= ring_buffer_capacity(Self)

\* size() = capacity, reached again after a write to a full buffer
C20_Witness ==
    /\ allocated
    /\ op = "write"
    /\ prev.is_full
    /\ capacity >= 2
    /\ ring_buffer_size(Self) = ring_buffer_capacity(Self)
    /\ ring_buffer_size(PrevRb) = ring_buffer_capacity(Self)

====
